---- MODULE Spec2Model ----
(***************************************************************************)
(* Model of bgwtools/epsilon/epsmat_modeler.py: class EpsmatModeler and   *)
(* the driver under __main__.                                             *)
(*                                                                         *)
(* Numbers.  Lengths and coordinates are integers in a fixed unit; the     *)
(* geometry and the q-points of the model are chosen so that every |q| is  *)
(* an exact integer, hence sqrt is exact.  Imaginary parts are integers in *)
(* units of 1e-16.  A floating-point value that went through the Coulomb   *)
(* kernel (exp, pi) is kept as a symbolic expression record                *)
(*   [e |-> real part read from the file,                                  *)
(*    vT |-> <<>> or the kernel arguments it was divided by,               *)
(*    div |-> the q-lengths it was afterwards divided by]                  *)
(* so that values are compared by the operations that produced them.      *)
(* numpy arrays of the epsmat object are 0-based functions; the Python     *)
(* lists and the arrays of the modeler are sequences (index i+1 for i).    *)
(***************************************************************************)
EXTENDS Integers, Sequences, FiniteSets, TLC

\* ------------------------------------------------------------------ bounds
MaxFiles == 2

\* -------------------------------------------------------------- run inputs
GzMaxes == {0, 1, 2}
Cutoffs == {0, 2, 5}
Models  == {0, 1, 2}
Smooths == {0, 1}
Degrees == {3}

\* imaginary-part tolerance 1e-15, in units of 1e-16
Tol == 10

\* ------------------------------------------------------------ wfn geometry
bdot == << <<1, 1, 0>>, <<1, 2, 0>>, <<0, 0, 4>> >>
alat == 2
avec22 == 3

Abs(x) == IF x < 0 THEN -x ELSE x

\* exact square root; defined on the perfect squares only
Sqrt(n) == CHOOSE r \in 0..n : r * r = n

\* np.linalg.cholesky(bdot): lower-triangular L with L L^T = bdot
Cholesky(b) ==
    LET l11 == Sqrt(b[1][1])
        l21 == b[2][1] \div l11
        l31 == b[3][1] \div l11
        l22 == Sqrt(b[2][2] - l21 * l21)
        l32 == (b[3][2] - l31 * l21) \div l22
        l33 == Sqrt(b[3][3] - l31 * l31 - l32 * l32)
    IN  << <<l11, 0, 0>>, <<l21, l22, 0>>, <<l31, l32, l33>> >>

Transpose3(a) == [i \in 1..3 |-> [j \in 1..3 |-> a[j][i]]]

M == Transpose3(Cholesky(bdot))

Lz == alat * avec22

\* self.Gzs = arange(-Gz_max, Gz_max+1); self.nG = len(self.Gzs)
GzsOf(gzmax) == [ig \in 1..(2 * gzmax + 1) |-> ig - 1 - gzmax]

\* self.gvecs_want: column ig is (0, 0, Gzs[ig])
GvecsWant(gzmax) == [ig \in 1..(2 * gzmax + 1) |-> <<0, 0, GzsOf(gzmax)[ig]>>]

\* ------------------------------------------------------------ epsmat files
\* Three files: 1 has every wanted G-vector and real data, its |q| are
\* 2, 5, 0, 3; 2 lacks (0,0,2) and (0,0,-2), |q| = 1, 2; 3 has every wanted
\* G-vector, |q| = 1, 2, 3, and imaginary parts at and above the tolerance.
\* The diagonal of the dielectric matrix of file sid at q-point iq for the
\* G-vector with global index g: real part and imaginary part.
Re(sid, iq, g) == 1000 * sid + 100 * iq + g

Im(sid, iq, g) ==
    CASE sid = 1 /\ iq = 0 /\ g = 0 -> 9
      [] sid = 3 /\ iq = 0 /\ g = 5 -> 50
      [] sid = 3 /\ iq = 1 /\ g = 3 -> 0 - Tol
      [] sid = 3 /\ iq = 2 /\ g = 2 -> 1000000
      [] OTHER -> 0

GvecK(sid) ==
    CASE sid = 1 -> << <<0,0,0>>, <<1,0,0>>, <<0,0,1>>, <<0,0,-1>>,
                       <<0,0,2>>, <<0,1,0>>, <<0,0,-2>> >>
      [] sid = 2 -> << <<0,0,0>>, <<0,0,1>>, <<0,0,-1>>, <<1,0,0>>,
                       <<0,0,3>> >>
      [] sid = 3 -> << <<0,0,-2>>, <<0,0,-1>>, <<0,0,0>>, <<0,0,1>>,
                       <<0,0,2>>, <<1,1,0>> >>

Qpt(sid) ==
    CASE sid = 1 -> << <<2,0,0>>, <<-1,4,0>>, <<0,0,0>>, <<3,0,0>> >>
      [] sid = 2 -> << <<1,0,0>>, <<0,0,1>> >>
      [] sid = 3 -> << <<-1,0,0>>, <<0,0,-1>>, <<3,0,0>> >>

\* The epsmat object as add_epsmat sees it.  ng G-vectors, nq q-points;
\* isort_i[iq][g] is the 1-based position of global G-vector g in the
\* storage of q-point iq; Buf[iq][l] is the diagonal entry (l, l) of the
\* matrix the reader returns for q-point iq.
Epsmat(sid) ==
    LET gk == GvecK(sid)
        ng == Len(gk)
        qp == Qpt(sid)
        nq == Len(qp)
        isi == [iq \in 0..(nq - 1) |->
                  [g \in 0..(ng - 1) |-> ((g + iq + 1) % ng) + 1]]
    IN  [sid     |-> sid,
         nq      |-> nq,
         ng      |-> ng,
         gvec_k  |-> [g \in 0..(ng - 1) |-> gk[g + 1]],
         qpt     |-> [iq \in 0..(nq - 1) |-> qp[iq + 1]],
         isort_i |-> isi,
         Buf     |-> [iq \in 0..(nq - 1) |->
                       [l \in 0..(ng - 1) |->
                          LET g == CHOOSE h \in 0..(ng - 1) : isi[iq][h] - 1 = l
                          IN  <<Re(sid, iq, g), Im(sid, iq, g)>>]]]

Files == {1, 2, 3}

\* epsmatIO(arg, read_all=False): a freshly opened file, reader at the start
Open(sid) == [sid |-> sid, cursor |-> 0, reads |-> <<>>]

\* epsmat.read_qpt(in_place=False, ignore=...): hands out the matrix at the
\* cursor (nothing when ignore is set), moves the cursor on by one point and
\* is recorded in the reader's call history.
read_qpt(f, ignore) ==
    [buf  |-> IF ignore THEN <<>> ELSE Epsmat(f.sid).Buf[f.cursor],
     file |-> [f EXCEPT !.cursor = @ + 1,
                        !.reads = Append(@, [pos |-> f.cursor, ignore |-> ignore])]]

\* ------------------------------------------------------------------- state
VARIABLES
    Gz_max,     \* self.Gz_max
    avgcut_xy,  \* self.avgcut_xy
    qs,         \* self.qs: list of q vectors; after commit_data a 3 x nq array
    qlens,      \* self.qlens
    eps,        \* self.eps: list of nG-vectors; after commit_data nG x nq
    phase,      \* "pending": Python lists; "committed": sorted arrays
    epsmats,    \* the epsmat objects handed to add_epsmat, in call order
    degree,     \* self.degree (0: model not yet called)
    tcks,       \* self.tcks
    report,     \* what the last get_bgw_params printed (nG = 0: nothing yet)
    err         \* "none", or the exception that ended the run

vars == <<Gz_max, avgcut_xy, qs, qlens, eps, phase, epsmats, degree, tcks,
          report, err>>

nG == 2 * Gz_max + 1
Gzs == GzsOf(Gz_max)

\* a real number read from a file, as an expression record
Num(e) == [e |-> e, vT |-> <<>>, div |-> <<>>]

\* -------------------------------------------------------------- __init__
Init ==
    /\ Gz_max \in GzMaxes
    /\ avgcut_xy \in Cutoffs
    /\ qs = <<>>
    /\ qlens = <<>>
    /\ eps = <<>>
    /\ phase = "pending"
    /\ epsmats = <<>>
    /\ degree = 0
    /\ tcks = <<>>
    /\ report = [nG |-> 0, avgcut_xy |-> 0, splines |-> <<>>]
    /\ err = "none"

\* ------------------------------------------------------------ add_epsmat
Dist2(a, b) == (a[1] - b[1]) * (a[1] - b[1]) + (a[2] - b[2]) * (a[2] - b[2])
               + (a[3] - b[3]) * (a[3] - b[3])

\* cKDTree(gvec_k.T).query(w): index of a nearest stored vector, and its
\* distance (squared here; it is only compared with zero)
TreeQuery(em, w) ==
    LET g == CHOOSE h \in 0..(em.ng - 1) :
                 \A h2 \in 0..(em.ng - 1) :
                     Dist2(em.gvec_k[h], w) <= Dist2(em.gvec_k[h2], w)
    IN  [ig_glob |-> g, dist |-> Dist2(em.gvec_k[g], w)]

\* qlen = sqrt(sum(dot(M, qq)**2))
QLen(qq) ==
    LET c(i) == M[i][1] * qq[1] + M[i][2] * qq[2] + M[i][3] * qq[3]
    IN  Sqrt(c(1) * c(1) + c(2) * c(2) + c(3) * c(3))

IgnoredGe(qlen, cut) == qlen >= cut

\* if qlen > self.avgcut_xy
Ignored(qlen, cut) == qlen > cut

\* assert(np.all(np.fabs(np.imag(eps)) < 1e-15))
ImagOk(e) == \A ig \in DOMAIN e : Abs(e[ig][2]) < Tol

SkipPointNoRead(st) == st

\* the [ignored] branch: the point is read past and nothing is kept
SkipPoint(st) ==
    [st EXCEPT !.file = read_qpt(st.file, TRUE).file]

\* the branch that keeps the point: qs and qlens are appended, the matrix is
\* read, the wanted diagonal entries are picked and checked, eps is appended
KeepPoint(st, em, igs_glob, iq, qq, qlen) ==
    LET r   == read_qpt(st.file, FALSE)
        igs_local == [ig \in DOMAIN igs_glob |-> em.isort_i[iq][igs_glob[ig]] - 1]
        e   == [ig \in DOMAIN igs_glob |-> r.buf[igs_local[ig]]]
        st1 == [st EXCEPT !.qs = Append(@, qq),
                          !.qlens = Append(@, qlen),
                          !.file = r.file]
    IN  IF ImagOk(e)
        THEN [st1 EXCEPT !.eps = Append(@, [ig \in DOMAIN e |-> Num(e[ig][1])])]
        ELSE [st1 EXCEPT !.err = "assert_imag"]

RECURSIVE AddLoop(_, _, _, _, _)
\* for iq in range(epsmat.nq)
AddLoop(st, em, igs_glob, cut, iq) ==
    IF iq >= em.nq \/ st.err # "none" THEN st
    ELSE LET qq   == em.qpt[iq]
             qlen == QLen(qq)
         IN  IF Ignored(qlen, cut)
             THEN AddLoop(SkipPoint(st), em, igs_glob, cut, iq + 1)
             ELSE AddLoop(KeepPoint(st, em, igs_glob, iq, qq, qlen),
                          em, igs_glob, cut, iq + 1)

GvecsFoundAny(em, want) == \E ig \in DOMAIN want : TreeQuery(em, want[ig]).dist = 0

\* assert(np.all(dists == 0))
GvecsFound(em, want) == \A ig \in DOMAIN want : TreeQuery(em, want[ig]).dist = 0

AddEpsmat(st, gzmax, cut) ==
    LET em   == Epsmat(st.file.sid)
        want == GvecsWant(gzmax)
    IN  IF ~GvecsFound(em, want)
        THEN [st EXCEPT !.err = "assert_gvec"]
        ELSE AddLoop(st, em, [ig \in DOMAIN want |-> TreeQuery(em, want[ig]).ig_glob],
                     cut, 0)

\* the driver opens the next file and hands it to add_epsmat
add_epsmat(sid) ==
    /\ err = "none"
    /\ phase = "pending"
    /\ Len(epsmats) < MaxFiles
    /\ LET st == AddEpsmat([qs |-> qs, qlens |-> qlens, eps |-> eps,
                            file |-> Open(sid), err |-> "none"],
                           Gz_max, avgcut_xy)
       IN  /\ qs' = st.qs
           /\ qlens' = st.qlens
           /\ eps' = st.eps
           /\ epsmats' = Append(epsmats, st.file)
           /\ err' = st.err
    /\ UNCHANGED <<Gz_max, avgcut_xy, phase, degree, tcks, report>>

\* ----------------------------------------------------------- commit_data
\* np.array(list).T: entry [r][c] of the result is entry [c][r] of the list
TransposeList(l, nrows) ==
    [r \in 1..nrows |-> [c \in 1..Len(l) |-> l[c][r]]]

RECURSIVE ArgSortFrom(_, _)
\* the index orders that list ql[rest] in non-decreasing order
ArgSortFrom(ql, rest) ==
    IF rest = {} THEN {<<>>}
    ELSE UNION {{<<i>> \o t : t \in ArgSortFrom(ql, rest \ {i})} :
                i \in {j \in rest : \A k \in rest : ql[j] <= ql[k]}}

ArgSortNone(ql) == {[i \in 1..Len(ql) |-> i]}

\* np.argsort(qlens): quicksort by default, so the relative order of equal
\* keys is not fixed; every sorting order is a possible result
ArgSort(ql) == ArgSortFrom(ql, DOMAIN ql)

\* a[order] for a 1-d array
Take(a, order) == [i \in 1..Len(order) |-> a[order[i]]]

TakeColsNone(a, order) == a

\* a[:, order] for a 2-d array
TakeCols(a, order) == [r \in DOMAIN a |-> Take(a[r], order)]

commit_data ==
    /\ err = "none"
    /\ phase = "pending"
    /\ IF Len(qlens) = 0
       THEN \* np.array([]).T is 1-d; qs[:, order] raises IndexError
            /\ err' = "index"
            /\ UNCHANGED <<qs, qlens, eps, phase>>
       ELSE \E order \in ArgSort(qlens) :
            /\ qs' = TakeCols(TransposeList(qs, 3), order)
            /\ qlens' = Take(qlens, order)
            /\ eps' = TakeCols(TransposeList(eps, nG), order)
            /\ phase' = "committed"
            /\ err' = "none"
    /\ UNCHANGED <<Gz_max, avgcut_xy, epsmats, degree, tcks, report>>

\* ------------------------------------------------------------- get_vcoul
\* the arguments that fix the value of the truncated Coulomb interaction
\* 8 pi / (qlen^2 + G2) * (1 - exp(-qlen zc) cos_term)
get_vcoul(qlen, Gz) ==
    LET G2       == Gz * Gz * bdot[3][3]
        cos_term == 1 - 2 * (Gz % 2)
        zc       == Lz \div 2
    IN  <<qlen, G2, cos_term, zc>>

\* ----------------------------------------------------------------- model
\* chi = (self.eps - 1.0) / vT, a new (nG x nq) array
Chi(epsArr, ql, gz) ==
    [ig \in DOMAIN epsArr |->
        [j \in DOMAIN epsArr[ig] |->
            [epsArr[ig][j] EXCEPT !.e = @ - 1, !.vT = get_vcoul(ql[j], gz[ig])]]]

\* a[Gzs % 2 == 0, :] /= qlens, on the array a itself
DivEvenRows(a, ql, gz) ==
    [ig \in DOMAIN a |->
        IF gz[ig] % 2 = 0
        THEN [j \in DOMAIN a[ig] |-> [a[ig][j] EXCEPT !.div = Append(@, ql[j])]]
        ELSE a[ig]]

YsRefAlias(kind) == "eps"

\* which array the name ys is bound to: self.eps itself for model 0, the
\* new array chi otherwise
YsRef(kind) == IF kind = 0 THEN "eps" ELSE "chi"

\* lines 99-109: the arrays in memory after ys has been set up
ModelYs(kind, epsArr, ql, gz) ==
    LET mem0 == [eps |-> epsArr,
                 chi |-> IF kind = 0 THEN epsArr ELSE Chi(epsArr, ql, gz)]
        ref  == YsRef(kind)
        mem1 == IF kind \notin {0, 1}
                THEN [mem0 EXCEPT ![ref] = DivEvenRows(@, ql, gz)]
                ELSE mem0
    IN  [ys |-> mem1[ref], eps |-> mem1.eps]

PrependZeroOnlyGz0(kind, Gz) == Gz = 0 /\ kind = 1

\* if (Gz%2==0 and model==1)
PrependZero(kind, Gz) == Gz % 2 = 0 /\ kind = 1

StrictlyIncreasing(x) == \A i \in 1..(Len(x) - 1) : x[i] < x[i + 1]
NonDecreasing(x) == \A i \in 1..(Len(x) - 1) : x[i] <= x[i + 1]

\* splrep(x, y, k=k, s=s) returns a spline when there are more points than
\* the degree and x is ordered; whether repeated abscissae are rejected for
\* an interpolating spline (s = 0) depends on the installed solver (strict).
\* The spline is kept as the data and parameters that determine it.
splrep(x, y, k, s, strict) ==
    IF Len(x) > k /\ NonDecreasing(x) /\ (strict /\ s = 0 => StrictlyIncreasing(x))
    THEN [ok |-> TRUE, tck |-> [x |-> x, y |-> y, k |-> k, s |-> s]]
    ELSE [ok |-> FALSE, tck |-> [x |-> <<>>, y |-> <<>>, k |-> k, s |-> s]]

ResetTcksKeep(old) == old

\* self.tcks = []
ResetTcks(old) == <<>>

RECURSIVE FitLoop(_, _, _, _, _, _, _, _, _)
\* for ig, Gz in zip(np.arange(self.nG), self.Gzs)
FitLoop(acc, ys, ql, gz, kind, smooth, deg, strict, ig) ==
    IF ig > Len(gz) THEN [tcks |-> acc, err |-> "none"]
    ELSE LET Gz == gz[ig]
             pz == PrependZero(kind, Gz)
             x  == IF pz THEN <<0>> \o ql ELSE ql
             y  == IF pz THEN <<Num(0)>> \o ys[ig] ELSE ys[ig]
             s  == IF Gz = 0 THEN 0 ELSE Len(x) * smooth
             r  == splrep(x, y, deg, s, strict)
         IN  IF r.ok
             THEN FitLoop(Append(acc, r.tck), ys, ql, gz, kind, smooth, deg,
                          strict, ig + 1)
             ELSE [tcks |-> acc, err |-> "splrep"]

model(kind, smooth, deg, strict) ==
    /\ err = "none"
    /\ phase = "committed"
    /\ LET mem == ModelYs(kind, eps, qlens, Gzs)
           res == FitLoop(ResetTcks(tcks), mem.ys, qlens, Gzs, kind, smooth,
                          deg, strict, 1)
       IN  /\ eps' = mem.eps
           /\ tcks' = res.tcks
           /\ err' = res.err
    /\ degree' = deg
    /\ UNCHANGED <<Gz_max, avgcut_xy, qs, qlens, phase, epsmats, report>>

\* -------------------------------------------------------- get_bgw_params
get_bgw_params ==
    /\ err = "none"
    /\ phase = "committed"
    /\ degree # 0
    /\ report' = [nG |-> nG, avgcut_xy |-> avgcut_xy,
                  splines |-> [ig \in 1..nG |->
                                 [Gz |-> Gzs[ig], tck |-> tcks[ig], k |-> degree]]]
    /\ UNCHANGED <<Gz_max, avgcut_xy, qs, qlens, eps, phase, epsmats, degree,
                   tcks, err>>

Next ==
    \/ \E sid \in Files : add_epsmat(sid)
    \/ commit_data
    \/ \E kind \in Models, smooth \in Smooths, deg \in Degrees, strict \in BOOLEAN :
           model(kind, smooth, deg, strict)
    \/ get_bgw_params

Spec == Init /\ [][Next]_vars
\* ================================================================ claims
\* What the files contain, read off the file data by G-vector rather than
\* through the index tables, for the reads each reader has served.
Range(f) == {f[i] : i \in DOMAIN f}

Count(f, t) == Cardinality({i \in DOMAIN f : f[i] = t})

SameBag(a, b) ==
    /\ Len(a) = Len(b)
    /\ \A t \in Range(a) \cup Range(b) : Count(a, t) = Count(b, t)

IsEven(n) == \E k \in (0 - Abs(n))..Abs(n) : n = 2 * k

GIndex(sid, w) == CHOOSE g \in 0..(Len(GvecK(sid)) - 1) : GvecK(sid)[g + 1] = w

SampleAt(sid, pos) ==
    [q    |-> Qpt(sid)[pos + 1],
     qlen |-> QLen(Qpt(sid)[pos + 1]),
     eps  |-> [ig \in 1..nG |-> Num(Re(sid, pos, GIndex(sid, <<0, 0, Gzs[ig]>>)))]]

KeptReads(f) == SelectSeq(f.reads, LAMBDA r : ~r.ignore)

SamplesOf(f) == [i \in 1..Len(KeptReads(f)) |-> SampleAt(f.sid, KeptReads(f)[i].pos)]

RECURSIVE RetainedUpTo(_)
RetainedUpTo(n) ==
    IF n = 0 THEN <<>> ELSE RetainedUpTo(n - 1) \o SamplesOf(epsmats[n])

\* the retained samples, in ingestion order across all files
Retained == RetainedUpTo(Len(epsmats))

Col(a, i) == [r \in DOMAIN a |-> a[r][i]]

\* sample i of the committed arrays
Committed == [i \in 1..Len(qlens) |->
                 [q |-> Col(qs, i), qlen |-> qlens[i], eps |-> Col(eps, i)]]

MissingGvec(sid) ==
    \E ig \in 1..nG : \A g \in DOMAIN GvecK(sid) : GvecK(sid)[g] # <<0, 0, Gzs[ig]>>

Modeled == degree # 0 /\ err = "none"

\* C1: after commit_data the qlens array is non-decreasing (ties allowed).
C1_QlensSorted ==
    phase = "committed" =>
        \A i, j \in 1..Len(qlens) : i < j => qlens[i] <= qlens[j]

C1_Witness ==
    /\ phase = "committed"
    /\ \E i, j \in 1..Len(Retained) : i < j /\ Retained[i].qlen > Retained[j].qlen
    /\ \E i, j \in 1..Len(qlens) : i < j /\ qlens[i] = qlens[j]

\* C2: when add_epsmat fails on an imaginary part at or above the tolerance,
\* qs, qlens and eps all have the length they had before the failing point
\* was processed, i.e. one entry per point kept before it.
C2_NothingAppendedOnImagFailure ==
    err = "assert_imag" =>
        LET before == Len(Retained) - 1
        IN  /\ Len(qs) = before
            /\ Len(qlens) = before
            /\ Len(eps) = before

RECURSIVE TotalPoints(_)
TotalPoints(n) ==
    IF n = 0 THEN 0 ELSE TotalPoints(n - 1) + Len(Qpt(epsmats[n].sid))

\* C3: with avgcut_xy = 0.0 nothing is filtered: every q-point of every
\* ingested file is retained.
C3_ZeroCutKeepsAll ==
    (avgcut_xy = 0 /\ err = "none") =>
        /\ Len(qlens) = TotalPoints(Len(epsmats))
        /\ \A n \in DOMAIN epsmats : \A k \in DOMAIN epsmats[n].reads :
               ~epsmats[n].reads[k].ignore

CallCompleted(n) == n < Len(epsmats) \/ err \notin {"assert_gvec", "assert_imag"}

\* C5: an add_epsmat call that completes has invoked read_qpt exactly once
\* per q-point, for iq = 0..nq-1 in increasing order, retained or ignored,
\* and has left the reader cursor at nq.
C5_OneReadPerPoint ==
    \A n \in DOMAIN epsmats :
        CallCompleted(n) =>
            LET f == epsmats[n]
                nq == Len(Qpt(f.sid))
            IN  /\ f.cursor = nq
                /\ Len(f.reads) = nq
                /\ \A k \in 1..nq : f.reads[k].pos = k - 1

C5_Witness ==
    /\ err = "none"
    /\ \E n \in DOMAIN epsmats :
           /\ \E k \in DOMAIN epsmats[n].reads : epsmats[n].reads[k].ignore
           /\ \E k \in DOMAIN epsmats[n].reads : ~epsmats[n].reads[k].ignore

\* C6: a file that lacks a requested vector (0,0,Gz) makes add_epsmat fail
\* with the assertion before any of its q-points is processed: the pending
\* lists hold exactly the samples of the earlier files and the file's
\* reader has not moved.
C6_MissingGvecFailsFirst ==
    \A n \in DOMAIN epsmats :
        MissingGvec(epsmats[n].sid) =>
            /\ n = Len(epsmats)
            /\ err = "assert_gvec"
            /\ epsmats[n].cursor = 0
            /\ epsmats[n].reads = <<>>
            /\ phase = "pending"
            /\ qs = [i \in 1..Len(Retained) |-> Retained[i].q]
            /\ qlens = [i \in 1..Len(Retained) |-> Retained[i].qlen]
            /\ eps = [i \in 1..Len(Retained) |-> Retained[i].eps]

C6_Witness ==
    /\ err = "assert_gvec"
    /\ Len(epsmats) > 1
    /\ Len(qs) > 0
    /\ MissingGvec(epsmats[Len(epsmats)].sid)

\* C7: after commit_data qs, qlens and eps hold the same number of samples
\* in one common order: the committed (q, qlen, eps) triples are a
\* permutation of the retained samples (equal as bags of triples), so no
\* sample is lost, duplicated or paired with another sample's data.
C7_CommonOrder ==
    phase = "committed" =>
        /\ Len(qs) = 3
        /\ Len(eps) = nG
        /\ \A r \in DOMAIN qs : Len(qs[r]) = Len(qlens)
        /\ \A r \in DOMAIN eps : Len(eps[r]) = Len(qlens)
        /\ SameBag(Committed, Retained)

C7_Witness ==
    /\ phase = "committed"
    /\ Len(qlens) >= 3
    /\ \E i \in 1..Len(qlens) : Committed[i] # Retained[i]
    /\ \E i, j \in 1..Len(qlens) : i < j /\ qlens[i] = qlens[j] /\ Col(qs, i) # Col(qs, j)

\* C8: after every successful model call tcks has exactly nG = 2*Gz_max+1
\* entries and entry ig was fitted to the data of row ig, i.e. of
\* Gzs[ig] = ig - Gz_max (0-based); negative Gz get an entry like the others.
\* (The witness is a state where model has run again after a report.)
C8_OneSplinePerGz ==
    Modeled =>
        /\ Len(tcks) = 2 * Gz_max + 1
        /\ \A ig \in 1..Len(tcks) :
               LET Gz  == (ig - 1) - Gz_max
                   y   == tcks[ig].y
                   off == Len(y) - Len(qlens)
               IN  /\ off \in {0, 1}
                   /\ tcks[ig].k = degree
                   /\ Len(tcks[ig].x) = Len(y)
                   /\ \A j \in 1..Len(qlens) :
                          /\ y[off + j].e \in {eps[ig][j].e, eps[ig][j].e - 1}
                          /\ y[off + j].vT # <<>> =>
                                 y[off + j].vT = get_vcoul(qlens[j], Gz)

C8_Witness ==
    /\ Modeled
    /\ Gz_max >= 1
    /\ Len(tcks) = 2 * Gz_max + 1
    /\ report.nG > 0
    /\ \E ig \in DOMAIN tcks : report.splines[ig].tck # tcks[ig]

LastKindIs1 ==
    /\ degree # 0
    /\ Len(tcks) > 0
    /\ \A ig \in DOMAIN tcks :
           LET last == tcks[ig].y[Len(tcks[ig].y)]
           IN  last.vT # <<>> /\ last.div = <<>>

\* C9: with model kind 1 the points handed to the spline fit are, for every
\* even Gz (0 and negative even Gz included), the point (0, 0) followed by
\* the nq (qlen, value) pairs in dataset order, and for every odd Gz exactly
\* the nq dataset pairs.
C9_PrependForEvenGz ==
    LastKindIs1 =>
        \A ig \in DOMAIN tcks :
            LET Gz  == (ig - 1) - Gz_max
                row == Chi(eps, qlens, Gzs)[ig]
            IN  IF IsEven(Gz)
                THEN /\ tcks[ig].x = <<0>> \o qlens
                     /\ tcks[ig].y = <<Num(0)>> \o row
                ELSE /\ tcks[ig].x = qlens
                     /\ tcks[ig].y = row

C9_Witness ==
    /\ LastKindIs1
    /\ err = "none"
    /\ Gz_max = 2
    /\ Len(tcks) = 5

\* C10: once commit_data has run, model and get_bgw_params leave qs, qlens
\* and eps unchanged, whatever the model kind, smoothing and degree.
C10_DatasetReadOnly ==
    [][phase = "committed" => (qs' = qs /\ qlens' = qlens /\ eps' = eps)]_vars

C10_Witness ==
    /\ Modeled
    /\ report.nG > 0
    /\ \E ig \in DOMAIN tcks : \E j \in DOMAIN tcks[ig].y : tcks[ig].y[j].div # <<>>
====
